---- MODULE Spec2Model ----
(***************************************************************************)
(* bun-generate (src/main.go): reads the tables and columns of a           *)
(* PostgreSQL catalog and writes one Go struct file per table.             *)
(*                                                                         *)
(* Go strings are TLA+ strings.  A []uint8 is a sequence of byte values.   *)
(* An interface{} value of a row map is a record tagged with its dynamic   *)
(* type: "string", "bytes", "int64" or "nil".                              *)
(*                                                                         *)
(* The grave accent (U+0060) cannot be written in a TLA+ string literal:   *)
(* BackQuote stands for it, and its stand-in character is kept out of the  *)
(* byte alphabet of the model, so no input can produce it.                 *)
(***************************************************************************)
EXTENDS Integers, Sequences, FiniteSets, TLC

VARIABLES
    pc,          \* position of the running function
    catalog,     \* the database: rows of information_schema.columns, in storage order
    disk,        \* the working directory: [dir |-> bunmodels exists, files |-> name -> content]
    disk0,       \* the working directory as the run found it
    tables,      \* main: result of FetchTables
    idx,         \* main: index of the table the loop is at
    tableName,   \* GenerateStruct / FetchColumns argument
    columns,     \* result of FetchColumns, argument of GenerateStruct
    structCode,  \* result of GenerateStruct
    fileName,    \* argument of SaveStructToFile
    inflight,    \* I/O operations issued and not yet returned
    log,         \* I/O operations returned so far, in order, with their outcome
    err,         \* the value main panicked with, or the error last returned
    sqlType,     \* MapColumnType argument
    hostType     \* MapColumnType result

vars == <<pc, catalog, disk, disk0, tables, idx, tableName, columns, structCode,
          fileName, inflight, log, err, sqlType, hostType>>

(***************************************************************************)
(* Bounds of the model.                                                    *)
(***************************************************************************)
\* columns of a list given to GenerateStruct
MaxCols == 2

\* calls of SaveStructToFile in SpecSave
MaxSaves == 3

\* tables of a catalog (all schemas together)
MaxTables == 3

(***************************************************************************)
(* Strings and bytes.                                                      *)
(***************************************************************************)
BackQuote == "~"

Ascii32to95 == " !\"#$%&'()*+,-./0123456789:;<=>?@ABCDEFGHIJKLMNOPQRSTUVWXYZ[\\]^_"

Ascii97to125 == "abcdefghijklmnopqrstuvwxyz{|}"

\* string(b) for one byte b
Chr(b) ==
    CASE b = 9 -> "\t"
      [] b = 10 -> "\n"
      [] b = 12 -> "\f"
      [] b = 13 -> "\r"
      [] b \in 32..95 -> SubSeq(Ascii32to95, b - 31, b - 31)
      [] b \in 97..125 -> SubSeq(Ascii97to125, b - 96, b - 96)

RECURSIVE StringOfBytes(_)
\* string(colName), string(colType): the conversion []uint8 -> string
StringOfBytes(bs) ==
    IF bs = <<>> THEN "" ELSE Chr(Head(bs)) \o StringOfBytes(Tail(bs))

RECURSIVE BytesOf(_)
\* []uint8 holding a text of lower-case letters, '_' and ' ': what the driver
\* hands over when it does not decode a text value
BytesOf(s) ==
    IF Len(s) = 0 THEN <<>>
    ELSE <<CHOOSE b \in {32, 95} \cup (97..122) : Chr(b) = SubSeq(s, 1, 1)>>
             \o BytesOf(SubSeq(s, 2, Len(s)))

\* unicode.IsSpace over the characters of the model's alphabet
IsSpace(c) == c \in {" ", "\t", "\n", "\r", "\f"}

RECURSIVE TrimLeft(_)
TrimLeft(s) ==
    IF Len(s) = 0 THEN s
    ELSE IF IsSpace(SubSeq(s, 1, 1)) THEN TrimLeft(SubSeq(s, 2, Len(s)))
    ELSE s

RECURSIVE TrimRight(_)
TrimRight(s) ==
    IF Len(s) = 0 THEN s
    ELSE IF IsSpace(SubSeq(s, Len(s), Len(s))) THEN TrimRight(SubSeq(s, 1, Len(s) - 1))
    ELSE s

\* strings.TrimSpace
TrimSpace(s) == TrimRight(TrimLeft(s))

cleanString(input) == TrimSpace(input)

(***************************************************************************)
(* MapColumnType                                                           *)
(***************************************************************************)
\* faulty variant: the case "date" is missing
MapColumnTypeNoDate(s) ==
    CASE s = "integer" -> "int"
      [] s = "bigint" -> "int64"
      [] s \in {"text", "character varying"} -> "string"
      [] s = "boolean" -> "bool"
      [] s = "timestamp without time zone" -> "time.Time"
      [] OTHER -> "interface{}"

MapColumnType(s) ==
    CASE s = "integer" -> "int"
      [] s = "bigint" -> "int64"
      [] s \in {"text", "character varying"} -> "string"
      [] s = "boolean" -> "bool"
      [] s \in {"timestamp without time zone", "date"} -> "time.Time"
      [] OTHER -> "interface{}"

(***************************************************************************)
(* GenerateStruct                                                          *)
(***************************************************************************)
Nil == [kind |-> "nil"]
Str(s) == [kind |-> "string", val |-> s]
Bytes(bs) == [kind |-> "bytes", val |-> bs]
Int64(n) == [kind |-> "int64", val |-> n]

\* column[key]: the nil interface when the key is absent
Lookup(column, key) == IF key \in DOMAIN column THEN column[key] ELSE Nil

\* "Decode column_name"
DecodeColumnName(column) ==
    LET v == Lookup(column, "column_name")
    IN  IF v.kind = "bytes" THEN StringOfBytes(v.val)
        ELSE IF v.kind = "string" THEN v.val
        ELSE ""

\* faulty variant: a byte-sequence data_type is converted but not mapped
DecodeDataTypeRawBytes(column) ==
    LET v == Lookup(column, "data_type")
    IN  IF v.kind = "bytes" THEN StringOfBytes(v.val)
        ELSE IF v.kind = "string" THEN MapColumnType(v.val)
        ELSE ""

\* "Decode data_type"
DecodeDataType(column) ==
    LET v == Lookup(column, "data_type")
    IN  IF v.kind = "bytes" THEN MapColumnType(StringOfBytes(v.val))
        ELSE IF v.kind = "string" THEN MapColumnType(v.val)
        ELSE ""

\* faulty variant: the tag carries the name as decoded, before cleaning
FieldLineRawTag(column) ==
    LET columnName == cleanString(DecodeColumnName(column))
        dataType == DecodeDataType(column)
    IN  IF columnName # "" /\ dataType # ""
        THEN "\t" \o columnName \o " " \o dataType \o " " \o BackQuote \o "bun:\""
                  \o DecodeColumnName(column) \o "\"" \o BackQuote \o "\n"
        ELSE ""

\* faulty variant: || where the code has &&
FieldLineEitherNonEmpty(column) ==
    LET columnName == cleanString(DecodeColumnName(column))
        dataType == DecodeDataType(column)
    IN  IF columnName # "" \/ dataType # ""
        THEN "\t" \o columnName \o " " \o dataType \o " " \o BackQuote \o "bun:\""
                  \o columnName \o "\"" \o BackQuote \o "\n"
        ELSE ""

\* one iteration of the loop: what it appends to structCode
FieldLine(column) ==
    LET columnName == cleanString(DecodeColumnName(column))
        dataType == DecodeDataType(column)
    IN  IF columnName # "" /\ dataType # ""
        THEN "\t" \o columnName \o " " \o dataType \o " " \o BackQuote \o "bun:\""
                  \o columnName \o "\"" \o BackQuote \o "\n"
        ELSE ""

RECURSIVE FieldLines(_)
FieldLines(cols) ==
    IF cols = <<>> THEN "" ELSE FieldLine(Head(cols)) \o FieldLines(Tail(cols))

GenerateStruct(name, cols) ==
    "type " \o name \o " struct {\n" \o FieldLines(cols) \o "}\n"

(***************************************************************************)
(* Values left alone by a specification that does not use them.            *)
(***************************************************************************)
EmptyFiles == [p \in {} |-> ""]

NoDisk == [dir |-> FALSE, files |-> EmptyFiles]

NoCall == "-"

(***************************************************************************)
(* SpecMap: MapColumnType applied to one input.                            *)
(***************************************************************************)
Pads == {"", " ", "\t"}

BaseTypes ==
    {"integer", "bigint", "text", "character varying", "boolean",
     "timestamp without time zone", "date",
     "", "INTEGER", "Integer", "int", "varchar", "uuid", "numeric", "Date",
     "timestamp with time zone", "timestamp", "character", "interface{}"}

SqlTypeInputs == {p \o b \o q : p \in Pads, b \in BaseTypes, q \in Pads}

InitMap ==
    /\ pc = "map_input"
    /\ sqlType \in SqlTypeInputs
    /\ hostType = NoCall
    /\ catalog = <<>> /\ disk = NoDisk /\ disk0 = NoDisk /\ tables = <<>> /\ idx = 0
    /\ tableName = NoCall /\ columns = <<>> /\ structCode = NoCall /\ fileName = NoCall
    /\ inflight = {} /\ log = <<>> /\ err = "nil"

CallMapColumnType ==
    /\ pc = "map_input"
    /\ hostType' = MapColumnType(sqlType)
    /\ pc' = "map_done"
    /\ UNCHANGED <<catalog, disk, disk0, tables, idx, tableName, columns, structCode,
                   fileName, inflight, log, err, sqlType>>

NextMap == CallMapColumnType

SpecMap == InitMap /\ [][NextMap]_vars

(***************************************************************************)
(* SpecGen: GenerateStruct applied to one table name and one column list.  *)
(***************************************************************************)
ColumnNameValues ==
    {Str("id"), Bytes(BytesOf("name")), Str(" id\t"), Str("  "), Str(""), Int64(7)}

DataTypeValues ==
    {Str("integer"), Bytes(BytesOf("integer")), Str("uuid"), Str(""),
     Bytes(BytesOf("date")), Nil, Int64(23)}

\* row maps: both keys, or one of them absent
ColumnValues ==
    {[column_name |-> n, data_type |-> t] : n \in ColumnNameValues, t \in DataTypeValues}
      \cup {[column_name |-> Str("id")], [data_type |-> Str("text")]}

UsersColumns ==
    << [column_name |-> Str("id"), data_type |-> Str("integer")],
       [column_name |-> Str("name"), data_type |-> Str("text")],
       [column_name |-> Str("created_at"), data_type |-> Str("timestamp without time zone")] >>

ColumnLists ==
    UNION {[1..n -> ColumnValues] : n \in 0..MaxCols} \cup {UsersColumns}

TableNameInputs == {"users", "order_items"}

InitGen ==
    /\ pc = "gen_input"
    /\ tableName \in TableNameInputs
    /\ columns \in ColumnLists
    /\ structCode = NoCall
    /\ catalog = <<>> /\ disk = NoDisk /\ disk0 = NoDisk /\ tables = <<>> /\ idx = 0
    /\ fileName = NoCall /\ inflight = {} /\ log = <<>> /\ err = "nil"
    /\ sqlType = NoCall /\ hostType = NoCall

CallGenerateStruct ==
    /\ pc = "gen_input"
    /\ structCode' = GenerateStruct(tableName, columns)
    /\ pc' = "gen_done"
    /\ UNCHANGED <<catalog, disk, disk0, tables, idx, tableName, columns,
                   fileName, inflight, log, err, sqlType, hostType>>

NextGen == CallGenerateStruct

SpecGen == InitGen /\ [][NextGen]_vars

(***************************************************************************)
(* The file system: SaveStructToFile                                       *)
(***************************************************************************)
packageDir == "bunmodels"

packageDeclaration == "package bunmodels\n\n"

\* fmt.Sprintf("%s/%s", packageDir, fileName)
FilePath(name) == packageDir \o "/" \o name

\* faulty variant: the file is opened for appending, not truncated
WriteFileAppend(files, path, data) ==
    [p \in DOMAIN files \cup {path} |->
        IF p = path THEN (IF path \in DOMAIN files THEN files[path] ELSE "") \o data
        ELSE files[p]]

\* os.WriteFile returning nil: the file is created or truncated and holds data
WriteFile(files, path, data) ==
    [p \in DOMAIN files \cup {path} |-> IF p = path THEN data ELSE files[p]]

\* how one call of SaveStructToFile can end: MkdirAll fails; the file cannot be
\* opened; the write fails after the file was truncated, with nothing or with a
\* part of the data in it; success
SaveOutcomes == {"ok", "mkdir_err", "open_err", "write_err_empty", "write_err_partial"}

\* the working directory and the error after SaveStructToFile(name, code)
SaveStructToFile(d, name, code, outcome) ==
    LET fullCode == packageDeclaration \o code
        filePath == FilePath(name)
        made == [d EXCEPT !.dir = TRUE]
    IN  CASE outcome = "mkdir_err" -> [disk |-> d, err |-> "MkdirAll"]
          [] outcome = "open_err" -> [disk |-> made, err |-> "WriteFile"]
          [] outcome = "write_err_empty" ->
               [disk |-> [made EXCEPT !.files = WriteFile(d.files, filePath, "")],
                err |-> "WriteFile"]
          [] outcome = "write_err_partial" ->
               [disk |-> [made EXCEPT !.files =
                            WriteFile(d.files, filePath,
                                      SubSeq(fullCode, 1, Len(packageDeclaration)))],
                err |-> "WriteFile"]
          [] outcome = "ok" ->
               [disk |-> [made EXCEPT !.files = WriteFile(d.files, filePath, fullCode)],
                err |-> "nil"]

\* the working directory before a run: nothing, an empty bunmodels, or the
\* files of an earlier run
InitialDisks ==
    {NoDisk,
     [dir |-> TRUE, files |-> EmptyFiles],
     [dir |-> TRUE,
      files |-> WriteFile(WriteFile(EmptyFiles, FilePath("users_struct.go"),
                                    "package bunmodels\n\ntype users struct {\n}\n"),
                          FilePath("doc.go"), "package bunmodels\n")]}

(***************************************************************************)
(* SpecSave: SaveStructToFile called up to MaxSaves times.                 *)
(***************************************************************************)
FileNameInputs == {"users_struct.go", "logs_struct.go"}

StructCodeInputs == {"type users struct {\n}\n", "type logs struct {\n\tid int\n}\n"}

InitSave ==
    /\ pc = "save_input"
    /\ disk0 \in InitialDisks
    /\ disk = disk0
    /\ log = <<>> /\ err = "nil"
    /\ fileName = NoCall /\ structCode = NoCall
    /\ catalog = <<>> /\ tables = <<>> /\ idx = 0 /\ tableName = NoCall /\ columns = <<>>
    /\ inflight = {} /\ sqlType = NoCall /\ hostType = NoCall

CallSaveStructToFile ==
    /\ pc \in {"save_input", "save_done"}
    /\ Len(log) < MaxSaves
    /\ \E name \in FileNameInputs, code \in StructCodeInputs, outcome \in SaveOutcomes :
         LET r == SaveStructToFile(disk, name, code, outcome)
         IN  /\ fileName' = name
             /\ structCode' = code
             /\ disk' = r.disk
             /\ err' = r.err
             /\ log' = Append(log, [op |-> "SaveStructToFile", arg |-> name,
                                    text |-> code, ok |-> r.err = "nil"])
    /\ pc' = "save_done"
    /\ UNCHANGED <<catalog, disk0, tables, idx, tableName, columns, inflight,
                   sqlType, hostType>>

NextSave == CallSaveStructToFile

SpecSave == InitSave /\ [][NextSave]_vars

(***************************************************************************)
(* The database catalog: FetchTables, FetchColumns                         *)
(***************************************************************************)
\* rows that information_schema.tables can hold; a table name is unique
\* within its schema
TableRows ==
    {[schema |-> "public", name |-> "users"],
     [schema |-> "public", name |-> "logs"],
     [schema |-> "public", name |-> "items"],
     [schema |-> "audit", name |-> "users"]}

\* the rows of information_schema.columns of one table, by ordinal position
DeclaredColumns(row) ==
    CASE row = [schema |-> "public", name |-> "users"] ->
           << [column_name |-> "id", data_type |-> "integer"],
              [column_name |-> "name", data_type |-> "text"] >>
      [] row = [schema |-> "public", name |-> "logs"] ->
           << [column_name |-> "at", data_type |-> "date"] >>
      [] row = [schema |-> "public", name |-> "items"] -> <<>>
      [] row = [schema |-> "audit", name |-> "users"] ->
           << [column_name |-> "secret", data_type |-> "uuid"] >>

RECURSIVE ColumnRows(_)
\* information_schema.columns for the tables ts
ColumnRows(ts) ==
    IF ts = <<>> THEN <<>>
    ELSE LET row == Head(ts)
             cols == DeclaredColumns(row)
         IN  [k \in 1..Len(cols) |->
                 [schema |-> row.schema, table |-> row.name,
                  column_name |-> cols[k].column_name, data_type |-> cols[k].data_type]]
               \o ColumnRows(Tail(ts))

\* the catalogs: up to MaxTables of TableRows in any order, with their
\* columns; text |-> how the driver hands over a text value
Catalogs ==
    {[tables |-> ts, columns |-> ColumnRows(ts), text |-> kind] :
        ts \in {t \in UNION {[1..n -> TableRows] : n \in 0..MaxTables} :
                   \A i, j \in 1..Len(t) : i # j => t[i] # t[j]},
        kind \in {"string", "bytes"}}

\* a text value of a result row as the driver hands it over
Scanned(cat, s) == IF cat.text = "bytes" THEN Bytes(BytesOf(s)) ELSE Str(s)

InPublic(row) == row.schema = "public"

\* SELECT table_name FROM information_schema.tables WHERE table_schema = 'public'
FetchTables(cat) ==
    LET rows == SelectSeq(cat.tables, InPublic)
    IN  [k \in 1..Len(rows) |-> rows[k].name]

\* SELECT column_name::text, data_type::text FROM information_schema.columns
\* WHERE table_name = ?
FetchColumns(cat, name) ==
    LET OfTable(row) == row.table = name
        rows == SelectSeq(cat.columns, OfTable)
    IN  [k \in 1..Len(rows) |->
            [column_name |-> Scanned(cat, rows[k].column_name),
             data_type |-> Scanned(cat, rows[k].data_type)]]

(***************************************************************************)
(* main                                                                    *)
(***************************************************************************)
Op(name, arg) == [op |-> name, arg |-> arg]

Returned(name, arg, ok) == [op |-> name, arg |-> arg, ok |-> ok]

\* panic(err)
Panic(e) == pc' = "panic" /\ err' = e

Init ==
    /\ pc = "open"
    /\ catalog \in Catalogs
    /\ disk0 \in InitialDisks
    /\ disk = disk0
    /\ tables = <<>> /\ idx = 0
    /\ tableName = NoCall /\ columns = <<>> /\ structCode = NoCall /\ fileName = NoCall
    /\ inflight = {} /\ log = <<>> /\ err = "nil"
    /\ sqlType = NoCall /\ hostType = NoCall

\* sql.Open, bun.NewDB
OpenDB ==
    /\ pc = "open"
    /\ \E ok \in BOOLEAN :
         /\ log' = Append(log, Returned("Open", NoCall, ok))
         /\ IF ok THEN pc' = "ping" /\ err' = err ELSE Panic("Open")
    /\ UNCHANGED <<catalog, disk, disk0, tables, idx, tableName, columns, structCode,
                   fileName, inflight, sqlType, hostType>>

\* db.PingContext is called
PingBegin ==
    /\ pc = "ping"
    /\ inflight' = inflight \cup {Op("Ping", NoCall)}
    /\ pc' = "pinging"
    /\ UNCHANGED <<catalog, disk, disk0, tables, idx, tableName, columns, structCode,
                   fileName, log, err, sqlType, hostType>>

\* db.PingContext returns
PingEnd ==
    /\ pc = "pinging"
    /\ inflight' = inflight \ {Op("Ping", NoCall)}
    /\ \E ok \in BOOLEAN :
         /\ log' = Append(log, Returned("Ping", NoCall, ok))
         /\ IF ok THEN pc' = "fetch_tables" /\ err' = err ELSE Panic("Ping")
    /\ UNCHANGED <<catalog, disk, disk0, tables, idx, tableName, columns, structCode,
                   fileName, sqlType, hostType>>

\* FetchTables is called
FetchTablesBegin ==
    /\ pc = "fetch_tables"
    /\ inflight' = inflight \cup {Op("FetchTables", NoCall)}
    /\ pc' = "fetching_tables"
    /\ UNCHANGED <<catalog, disk, disk0, tables, idx, tableName, columns, structCode,
                   fileName, log, err, sqlType, hostType>>

\* FetchTables returns
FetchTablesEnd ==
    /\ pc = "fetching_tables"
    /\ inflight' = inflight \ {Op("FetchTables", NoCall)}
    /\ \E ok \in BOOLEAN :
         /\ log' = Append(log, Returned("FetchTables", NoCall, ok))
         /\ IF ok
            THEN /\ tables' = FetchTables(catalog)
                 /\ idx' = 1
                 /\ pc' = "loop"
                 /\ err' = err
            ELSE /\ Panic("FetchTables")
                 /\ UNCHANGED <<tables, idx>>
    /\ UNCHANGED <<catalog, disk, disk0, tableName, columns, structCode,
                   fileName, sqlType, hostType>>

\* faulty variant: the loop stops one table early
LoopNextOffByOne ==
    /\ pc = "loop"
    /\ IF idx < Len(tables)
       THEN /\ tableName' = tables[idx]
            /\ inflight' = inflight \cup {Op("FetchColumns", tables[idx])}
            /\ pc' = "fetching_columns"
       ELSE /\ pc' = "done"
            /\ UNCHANGED <<tableName, inflight>>
    /\ UNCHANGED <<catalog, disk, disk0, tables, idx, columns, structCode,
                   fileName, log, err, sqlType, hostType>>

\* for _, table := range tables: the next table's FetchColumns is called, or
\* the loop and main end
LoopNext ==
    /\ pc = "loop"
    /\ IF idx <= Len(tables)
       THEN /\ tableName' = tables[idx]
            /\ inflight' = inflight \cup {Op("FetchColumns", tables[idx])}
            /\ pc' = "fetching_columns"
       ELSE /\ pc' = "done"
            /\ UNCHANGED <<tableName, inflight>>
    /\ UNCHANGED <<catalog, disk, disk0, tables, idx, columns, structCode,
                   fileName, log, err, sqlType, hostType>>

\* faulty variant: the error of FetchColumns is dropped and the table is rendered
\* without columns
FetchColumnsEndErrorDropped ==
    /\ pc = "fetching_columns"
    /\ inflight' = inflight \ {Op("FetchColumns", tableName)}
    /\ \E ok \in BOOLEAN :
         /\ log' = Append(log, Returned("FetchColumns", tableName, ok))
         /\ columns' = IF ok THEN FetchColumns(catalog, tableName) ELSE <<>>
         /\ structCode' = GenerateStruct(tableName, columns')
         /\ fileName' = tableName \o "_struct.go"
         /\ pc' = "save"
         /\ err' = err
    /\ UNCHANGED <<catalog, disk, disk0, tables, idx, tableName, sqlType, hostType>>

\* FetchColumns returns; GenerateStruct; the file name
FetchColumnsEnd ==
    /\ pc = "fetching_columns"
    /\ inflight' = inflight \ {Op("FetchColumns", tableName)}
    /\ \E ok \in BOOLEAN :
         /\ log' = Append(log, Returned("FetchColumns", tableName, ok))
         /\ IF ok
            THEN /\ columns' = FetchColumns(catalog, tableName)
                 /\ structCode' = GenerateStruct(tableName, columns')
                 /\ fileName' = tableName \o "_struct.go"
                 /\ pc' = "save"
                 /\ err' = err
            ELSE /\ Panic("FetchColumns")
                 /\ UNCHANGED <<columns, structCode, fileName>>
    /\ UNCHANGED <<catalog, disk, disk0, tables, idx, tableName, sqlType, hostType>>

\* faulty variant: the file is written in the background and the loop goes on
SaveBeginAsync ==
    /\ pc = "save"
    /\ inflight' = inflight \cup {Op("SaveStructToFile", fileName)}
    /\ idx' = idx + 1
    /\ pc' = "loop"
    /\ UNCHANGED <<catalog, disk, disk0, tables, tableName, columns, structCode,
                   fileName, log, err, sqlType, hostType>>

\* SaveStructToFile is called
SaveBegin ==
    /\ pc = "save"
    /\ inflight' = inflight \cup {Op("SaveStructToFile", fileName)}
    /\ pc' = "saving"
    /\ UNCHANGED <<catalog, disk, disk0, tables, idx, tableName, columns, structCode,
                   fileName, log, err, sqlType, hostType>>

\* faulty variant: the error of SaveStructToFile is dropped and the loop goes on
SaveEndErrorDropped ==
    /\ pc = "saving"
    /\ inflight' = inflight \ {Op("SaveStructToFile", fileName)}
    /\ \E outcome \in SaveOutcomes :
         LET r == SaveStructToFile(disk, fileName, structCode, outcome)
         IN  /\ disk' = r.disk
             /\ log' = Append(log, Returned("SaveStructToFile", fileName, r.err = "nil"))
             /\ idx' = idx + 1
             /\ pc' = "loop"
             /\ err' = err
    /\ UNCHANGED <<catalog, disk0, tables, tableName, columns, structCode,
                   fileName, sqlType, hostType>>

\* SaveStructToFile returns; the loop goes to the next table
SaveEnd ==
    /\ pc = "saving"
    /\ inflight' = inflight \ {Op("SaveStructToFile", fileName)}
    /\ \E outcome \in SaveOutcomes :
         LET r == SaveStructToFile(disk, fileName, structCode, outcome)
         IN  /\ disk' = r.disk
             /\ log' = Append(log, Returned("SaveStructToFile", fileName, r.err = "nil"))
             /\ IF r.err = "nil"
                THEN /\ idx' = idx + 1
                     /\ pc' = "loop"
                     /\ err' = err
                ELSE /\ Panic(r.err)
                     /\ idx' = idx
    /\ UNCHANGED <<catalog, disk0, tables, tableName, columns, structCode,
                   fileName, sqlType, hostType>>

Next ==
    \/ OpenDB
    \/ PingBegin
    \/ PingEnd
    \/ FetchTablesBegin
    \/ FetchTablesEnd
    \/ LoopNext
    \/ FetchColumnsEnd
    \/ SaveBegin
    \/ SaveEnd

Spec == Init /\ [][Next]_vars

(***************************************************************************)
(* Vocabulary of the properties: the documented behaviour, stated without  *)
(* the definitions above.                                                  *)
(***************************************************************************)
SpaceChars == {" ", "\t", "\n", "\r", "\f"}

Blank(s) == \A i \in 1..Len(s) : SubSeq(s, i, i) \in SpaceChars

\* s without its leading and trailing whitespace: the middle part of a cut
\* of s into blank, (empty or non-blank at both ends), blank
Cleaned(s) ==
    LET n == Len(s)
        cuts == {c \in (1..(n + 1)) \X (0..n) :
                    /\ c[1] <= c[2] + 1
                    /\ Blank(SubSeq(s, 1, c[1] - 1))
                    /\ Blank(SubSeq(s, c[2] + 1, n))
                    /\ c[1] <= c[2] =>
                         /\ SubSeq(s, c[1], c[1]) \notin SpaceChars
                         /\ SubSeq(s, c[2], c[2]) \notin SpaceChars}
        cut == CHOOSE c \in cuts : TRUE
    IN  SubSeq(s, cut[1], cut[2])

DocumentedMapping ==
    {<<"integer", "int">>, <<"bigint", "int64">>, <<"text", "string">>,
     <<"character varying", "string">>, <<"boolean", "bool">>,
     <<"timestamp without time zone", "time.Time">>, <<"date", "time.Time">>}

Placeholder == "interface{}"

DocumentedType(s) ==
    IF \E m \in DocumentedMapping : m[1] = s
    THEN (CHOOSE m \in DocumentedMapping : m[1] = s)[2]
    ELSE Placeholder

IsText(v) == v.kind \in {"string", "bytes"}

TextOf(v) == IF v.kind = "bytes" THEN StringOfBytes(v.val) ELSE v.val

HasName(c) == "column_name" \in DOMAIN c /\ IsText(c.column_name)

HasType(c) == "data_type" \in DOMAIN c /\ IsText(c.data_type)

NameOf(c) == IF HasName(c) THEN Cleaned(TextOf(c.column_name)) ELSE ""

Retained(c) == NameOf(c) # "" /\ HasType(c)

ExpectedLine(c) ==
    "\t" \o NameOf(c) \o " " \o DocumentedType(TextOf(c.data_type)) \o " "
         \o BackQuote \o "bun:\"" \o NameOf(c) \o "\"" \o BackQuote

\* the lines of a text, without their line feeds (what follows the last
\* line feed is not a line)
Lines(s) ==
    LET nl == {i \in 1..Len(s) : SubSeq(s, i, i) = "\n"}
        pos(k) == CHOOSE i \in nl : Cardinality({j \in nl : j < i}) = k - 1
    IN  [k \in 1..Cardinality(nl) |->
            SubSeq(s, (IF k = 1 THEN 1 ELSE pos(k - 1) + 1), pos(k) - 1)]

EndsWithNewline(s) == Len(s) > 0 /\ SubSeq(s, Len(s), Len(s)) = "\n"

\* the first word of a field line: what stands between the tab and the first space
FieldName(line) ==
    LET sp == CHOOSE i \in 2..Len(line) :
                  /\ SubSeq(line, i, i) = " "
                  /\ \A j \in 2..(i - 1) : SubSeq(line, j, j) # " "
    IN  SubSeq(line, 2, sp - 1)

\* a row map with every byte-sequence value replaced by the equal string
AsStrings(c) ==
    [k \in DOMAIN c |-> IF c[k].kind = "bytes" THEN Str(StringOfBytes(c[k].val)) ELSE c[k]]

(***************************************************************************)
(* C1: MapColumnType returns the documented host type for each of the      *)
(* seven recognized SQL type names and interface{} for every other string  *)
(* (the empty string, case and whitespace variants included); the result   *)
(* is never empty.                                                         *)
(***************************************************************************)
Thm_C1_MapColumnTypeTotal ==
    pc = "map_done" =>
        /\ hostType = DocumentedType(sqlType)
        /\ hostType # ""
        /\ hostType \in {"int", "int64", "string", "bool", "time.Time", Placeholder}
        /\ (sqlType \notin {m[1] : m \in DocumentedMapping}) => hostType = Placeholder

Wit_C1_DateMapped ==
    pc = "map_done" /\ sqlType = "date" /\ hostType = "time.Time"

Omitted(c) == Blank(DecodeColumnName(c)) \/ DecodeDataType(c) = ""

NotOmitted(c) == ~Omitted(c)

(***************************************************************************)
(* C6: GenerateStruct leaves out exactly the columns whose cleaned name is *)
(* empty or whose mapped type is empty; the other columns are rendered as  *)
(* if the omitted ones had not been given.                                 *)
(***************************************************************************)
Thm_C6_EmptyFieldsOmitted ==
    pc = "gen_done" =>
        LET ls == Lines(structCode)
            kept == SelectSeq(columns, NotOmitted)
        IN  /\ Len(ls) = Len(kept) + 2
            /\ \A j \in 1..Len(kept) :
                   FieldName(ls[j + 1]) = Cleaned(DecodeColumnName(kept[j]))
            /\ structCode = GenerateStruct(tableName, kept)

Wit_C6_WhitespaceNameOmitted ==
    /\ pc = "gen_done"
    /\ Len(columns) = 2
    /\ columns[1] = [column_name |-> Str("  "), data_type |-> Str("integer")]
    /\ columns[2] = [column_name |-> Str("id"), data_type |-> Str("integer")]
    /\ Len(Lines(structCode)) = 3

UsersStruct ==
    "type users struct {\n"
      \o "\tid int " \o BackQuote \o "bun:\"id\"" \o BackQuote \o "\n"
      \o "\tname string " \o BackQuote \o "bun:\"name\"" \o BackQuote \o "\n"
      \o "\tcreated_at time.Time " \o BackQuote \o "bun:\"created_at\"" \o BackQuote \o "\n"
      \o "}\n"

(***************************************************************************)
(* C7: GenerateStruct returns "type <table> struct {", one field line per  *)
(* retained column in the order given (cleaned name, documented host type, *)
(* bun tag equal to the cleaned name), and "}"; no field line for an empty *)
(* column list; three fields int, string, time.Time for the users example. *)
(***************************************************************************)
Thm_C7_StructShape ==
    pc = "gen_done" =>
        LET ls == Lines(structCode)
            kept == SelectSeq(columns, Retained)
        IN  /\ EndsWithNewline(structCode)
            /\ Len(ls) = Len(kept) + 2
            /\ ls[1] = "type " \o tableName \o " struct {"
            /\ ls[Len(ls)] = "}"
            /\ \A j \in 1..Len(kept) : ls[j + 1] = ExpectedLine(kept[j])
            /\ columns = <<>> => structCode = "type " \o tableName \o " struct {\n}\n"
            /\ (tableName = "users" /\ columns = UsersColumns) => structCode = UsersStruct

Wit_C7_UsersExample ==
    pc = "gen_done" /\ tableName = "users" /\ columns = UsersColumns
      /\ Len(Lines(structCode)) = 5

RenderedColumn(c) == HasType(c) /\ HasName(c) /\ ~Blank(TextOf(c.column_name))

(***************************************************************************)
(* C10: the mapped type of a column is empty exactly when its data_type is *)
(* absent or neither a string nor a byte sequence, and such a column gets  *)
(* no field (not an interface{} field); every column with a textual        *)
(* data_type and a non-blank name is rendered; byte-sequence values render *)
(* as the equal strings do.                                                *)
(***************************************************************************)
Thm_C10_EmptyTypeIffNotText ==
    pc = "gen_done" =>
        /\ \A k \in 1..Len(columns) :
               /\ DecodeDataType(columns[k]) = "" <=> ~HasType(columns[k])
               /\ HasType(columns[k]) =>
                    DecodeDataType(columns[k]) = DocumentedType(TextOf(columns[k].data_type))
        /\ Len(Lines(structCode)) = Len(SelectSeq(columns, RenderedColumn)) + 2
        /\ structCode = GenerateStruct(tableName, [k \in 1..Len(columns) |-> AsStrings(columns[k])])

Wit_C10_NonTextTypeOmitted ==
    /\ pc = "gen_done"
    /\ Len(columns) = 2
    /\ columns[1] = [column_name |-> Str("id"), data_type |-> Int64(23)]
    /\ columns[2] = [column_name |-> Str("id"), data_type |-> Bytes(BytesOf("integer"))]
    /\ Len(Lines(structCode)) = 3

(***************************************************************************)
(* Vocabulary of the run properties.                                       *)
(***************************************************************************)
Header == "package bunmodels\n\n"

PathOfTable(t) == "bunmodels/" \o t \o "_struct.go"

FailedAt(i) == ~log[i].ok

Failed == \E i \in 1..Len(log) : FailedAt(i)

\* the content of path on disk d, or a value no file has when there is none
ContentIn(d, path) == IF path \in DOMAIN d.files THEN <<d.files[path]>> ELSE <<>>

\* the paths the run has written with success
WrittenPaths ==
    {"bunmodels/" \o log[i].arg : i \in {j \in 1..Len(log) :
                                          log[j].op = "SaveStructToFile" /\ log[j].ok}}

\* the calls of SaveStructToFile that have returned, whatever the outcome
SaveCallsFor(name) ==
    {i \in 1..Len(log) : log[i].op = "SaveStructToFile" /\ log[i].arg = name}

\* what the file of table t must hold once it is written
FileOfTable(t) == Header \o GenerateStruct(t, FetchColumns(catalog, t))

(***************************************************************************)
(* C2: a failure ends the run at once: the failed operation is the last    *)
(* one of the run, nothing is in flight after it, the run is in the error  *)
(* state and never reaches the end of main, the files of the tables        *)
(* before the failing one hold their full content and the files of the     *)
(* tables after it are as the run found them.                              *)
(***************************************************************************)
Thm_C2_FailureAbortsRun ==
    /\ Failed =>
         /\ pc = "panic"
         /\ err # "nil"
         /\ FailedAt(Len(log))
         /\ \A i \in 1..(Len(log) - 1) : ~FailedAt(i)
         /\ inflight = {}
    /\ pc = "panic" => Failed
    /\ pc = "done" => ~Failed /\ err = "nil"
    /\ (pc = "panic" /\ idx >= 1) =>
         /\ \A j \in 1..(idx - 1) :
                ContentIn(disk, PathOfTable(tables[j])) = <<FileOfTable(tables[j])>>
         /\ \A j \in (idx + 1)..Len(tables) :
                /\ ContentIn(disk, PathOfTable(tables[j])) = ContentIn(disk0, PathOfTable(tables[j]))
                /\ SaveCallsFor(tables[j] \o "_struct.go") = {}
                /\ \A i \in 1..Len(log) : log[i].arg # tables[j]

Wit_C2_SecondTableFails ==
    /\ pc = "panic"
    /\ idx = 2
    /\ Len(tables) = 3
    /\ log[Len(log)].op = "SaveStructToFile"
    /\ PathOfTable(tables[1]) \in DOMAIN disk.files

(***************************************************************************)
(* C3: when FetchColumns fails for a table, SaveStructToFile is not called *)
(* for it and its file is as the run found it (absent or unchanged); when  *)
(* FetchTables fails nothing is written at all; main panics with the       *)
(* error of the query.                                                     *)
(***************************************************************************)
Thm_C3_NoFileForFailedQuery ==
    /\ \A i \in 1..Len(log) :
         (log[i].op = "FetchColumns" /\ FailedAt(i)) =>
            /\ SaveCallsFor(log[i].arg \o "_struct.go") = {}
            /\ ContentIn(disk, PathOfTable(log[i].arg)) = ContentIn(disk0, PathOfTable(log[i].arg))
            /\ pc = "panic" /\ err = "FetchColumns"
    /\ \A i \in 1..Len(log) :
         (log[i].op = "FetchTables" /\ FailedAt(i)) =>
            /\ disk = disk0
            /\ \A j \in 1..Len(log) : log[j].op # "SaveStructToFile"
            /\ pc = "panic" /\ err = "FetchTables"

Wit_C3_ColumnsQueryFailsForUsers ==
    /\ pc = "panic"
    /\ err = "FetchColumns"
    /\ tableName = "users"
    /\ idx = 2
    /\ "bunmodels/users_struct.go" \in DOMAIN disk0.files
    /\ WrittenPaths # {}

(***************************************************************************)
(* C4: when main returns, SaveStructToFile has been called once per table  *)
(* of FetchTables and for nothing else; the file of each table holds the   *)
(* package header followed by GenerateStruct of the table and its          *)
(* FetchColumns result; every other file is as the run found it.           *)
(***************************************************************************)
Thm_C4_OneFilePerTable ==
    pc = "done" =>
        LET listed == FetchTables(catalog)
            names == {listed[k] : k \in 1..Len(listed)}
        IN  /\ tables = listed
            /\ WrittenPaths = {PathOfTable(t) : t \in names}
            /\ \A t \in names : Cardinality(SaveCallsFor(t \o "_struct.go")) = 1
            /\ Cardinality({i \in 1..Len(log) : log[i].op = "SaveStructToFile"}) = Len(listed)
            /\ \A t \in names : ContentIn(disk, PathOfTable(t)) = <<FileOfTable(t)>>
            /\ names # {} => disk.dir
            /\ \A p \in (DOMAIN disk.files \cup DOMAIN disk0.files) \ WrittenPaths :
                   ContentIn(disk, p) = ContentIn(disk0, p)

Wit_C4_ThreeTablesWritten ==
    /\ pc = "done"
    /\ Len(tables) = 3
    /\ ~disk0.dir
    /\ Cardinality(DOMAIN disk.files) = 3

LastSaveOf(name) == CHOOSE i \in SaveCallsFor(name) : \A j \in SaveCallsFor(name) : j <= i

(***************************************************************************)
(* C5: after a successful SaveStructToFile(fileName, text) bunmodels       *)
(* exists and bunmodels/fileName holds the package header followed by      *)
(* text and nothing else, whatever it held before; after several           *)
(* successful writes of one name the file holds the last one's content.    *)
(***************************************************************************)
Thm_C5_SaveOverwrites ==
    /\ (pc = "save_done" /\ err = "nil") =>
         /\ disk.dir
         /\ ContentIn(disk, "bunmodels/" \o fileName) = <<Header \o structCode>>
    /\ \A p \in (DOMAIN disk.files \cup DOMAIN disk0.files) \
                  {"bunmodels/" \o log[i].arg : i \in 1..Len(log)} :
         ContentIn(disk, p) = ContentIn(disk0, p)
    /\ \A name \in {log[i].arg : i \in 1..Len(log)} :
         log[LastSaveOf(name)].ok =>
            ContentIn(disk, "bunmodels/" \o name) = <<Header \o log[LastSaveOf(name)].text>>

Wit_C5_SecondWriteOfSameName ==
    /\ pc = "save_done"
    /\ Len(log) = 2
    /\ log[1].ok /\ log[2].ok
    /\ log[1].arg = log[2].arg
    /\ log[1].text # log[2].text
    /\ ~disk0.dir
    /\ disk.files["bunmodels/" \o fileName] = Header \o log[2].text

ColumnsOfPublicTable(t) ==
    LET Own(row) == row.schema = "public" /\ row.table = t
        rows == SelectSeq(catalog.columns, Own)
    IN  [k \in 1..Len(rows) |->
            [column_name |-> TextOf(Scanned(catalog, rows[k].column_name)),
             data_type |-> TextOf(Scanned(catalog, rows[k].data_type))]]

(***************************************************************************)
(* C8: the columns FetchColumns returns for a table of FetchTables are the *)
(* columns of that table of the public schema, so the struct generated for *)
(* it has no field from a table of the same name in another schema.        *)
(***************************************************************************)
Cex_C8_ColumnsOfTheTableOnly ==
    pc \in {"save", "saving"} =>
        /\ Len(columns) = Len(ColumnsOfPublicTable(tableName))
        /\ \A k \in 1..Len(columns) :
               /\ TextOf(columns[k].column_name) = ColumnsOfPublicTable(tableName)[k].column_name
               /\ TextOf(columns[k].data_type) = ColumnsOfPublicTable(tableName)[k].data_type

ExpectedOp(k) ==
    CASE k = 1 -> Op("Open", NoCall)
      [] k = 2 -> Op("Ping", NoCall)
      [] k = 3 -> Op("FetchTables", NoCall)
      [] OTHER ->
           LET i == ((k - 4) \div 2) + 1
           IN  IF (k - 4) % 2 = 0
               THEN Op("FetchColumns", FetchTables(catalog)[i])
               ELSE Op("SaveStructToFile", FetchTables(catalog)[i] \o "_struct.go")

(***************************************************************************)
(* C9: the operations of a run happen one at a time and in program order:  *)
(* Open, Ping, FetchTables, then for each table in the order FetchTables   *)
(* gave FetchColumns and SaveStructToFile; an operation is issued only     *)
(* when all before it have returned; the text saved for a table is         *)
(* GenerateStruct of that table's name and columns alone.                  *)
(***************************************************************************)
Thm_C9_SequentialRun ==
    /\ Cardinality(inflight) <= 1
    /\ Len(log) <= 3 + 2 * Len(FetchTables(catalog))
    /\ \A k \in 1..Len(log) : Op(log[k].op, log[k].arg) = ExpectedOp(k)
    /\ \A o \in inflight : o = ExpectedOp(Len(log) + 1)
    /\ pc \in {"save", "saving"} =>
         /\ tableName = FetchTables(catalog)[idx]
         /\ structCode = GenerateStruct(tableName, FetchColumns(catalog, tableName))
    /\ \A k \in 1..Len(log) :
         (log[k].op = "SaveStructToFile" /\ log[k].ok) =>
            ContentIn(disk, "bunmodels/" \o log[k].arg)
               = <<FileOfTable(FetchTables(catalog)[((k - 5) \div 2) + 1])>>

Wit_C9_SecondQueryAfterFirstWrite ==
    /\ pc = "fetching_columns"
    /\ idx = 2
    /\ inflight = {Op("FetchColumns", tables[2])}
    /\ Len(log) = 5
    /\ log[5] = Returned("SaveStructToFile", tables[1] \o "_struct.go", TRUE)

====
